---------------------------- MODULE Spec2Model ----------------------------
(***************************************************************************)
(* Model of the UCD text parser (src/src/lib.rs): the line filter          *)
(* UCDLines in its two forms (over std::str::Lines and over io::Lines) and *)
(* the field iterator UCDLineIter of a UCDLine.                            *)
(*                                                                         *)
(* A string is a sequence of one-character strings.                        *)
(***************************************************************************)
EXTENDS Integers, Sequences, FiniteSets, TLC

(* ------------------------------ bounds -------------------------------- *)

\* longest input text, in characters
MaxText == 4
\* calls of UCDLines::next made on one pipeline
MaxCalls == 3
\* calls of UCDLineIter::next made on one field iterator
MaxFieldCalls == 4
\* line reads of the byte stream that fail
MaxFail == 1

(* ------------------------------ alphabet ------------------------------ *)

\* the characters of the input: a data character, a blank, the comment
\* marker, the field delimiter and the line terminator
Chars == {"a", " ", "#", ";", "\n"}

\* the errors a line read of the byte stream can return
IoErrors == {"InvalidData", "Other"}

Texts == UNION {[1..n -> Chars] : n \in 0..MaxText}

(* --------------------- string functions of std ------------------------ *)

\* char::is_whitespace, on the characters of the alphabet
IsWhitespace(c) == c \in {" ", "\n"}

\* index of the first occurrence of c in s, 0 when there is none
Find(s, c) ==
    IF \E i \in 1..Len(s) : s[i] = c
    THEN CHOOSE i \in 1..Len(s) : s[i] = c /\ \A j \in 1..(i - 1) : s[j] # c
    ELSE 0

RECURSIVE TrimStart(_)
\* str::trim_start
TrimStart(s) ==
    IF s = <<>> THEN s
    ELSE IF IsWhitespace(Head(s)) THEN TrimStart(Tail(s))
    ELSE s

RECURSIVE TrimEnd(_)
\* str::trim_end
TrimEnd(s) ==
    IF s = <<>> THEN s
    ELSE IF IsWhitespace(s[Len(s)]) THEN TrimEnd(SubSeq(s, 1, Len(s) - 1))
    ELSE s

\* a bug: only the leading whitespace is removed
TrimStartOnly(s) == TrimStart(s)

\* str::trim
Trim(s) == TrimEnd(TrimStart(s))

RECURSIVE Lines(_)
\* str::lines / BufRead::lines: the lines of a text, each without its
\* terminator; the terminator of the last line is optional
Lines(t) ==
    IF t = <<>> THEN <<>>
    ELSE LET i == Find(t, "\n")
         IN  IF i = 0 THEN <<t>>
             ELSE <<SubSeq(t, 1, i - 1)>> \o Lines(SubSeq(t, i + 1, Len(t)))

\* str::split(c): the state of the lazy splitter before its first piece
Split(s) == [rest |-> s, finished |-> FALSE]

\* Split::next for delimiter c: the piece popped, if any, and the splitter
\* after the call
SplitNext(sp, c) ==
    IF sp.finished
    THEN [some |-> FALSE, piece |-> <<>>, sp |-> sp]
    ELSE LET i == Find(sp.rest, c)
         IN  IF i = 0
             THEN [some |-> TRUE, piece |-> sp.rest,
                   sp |-> [rest |-> <<>>, finished |-> TRUE]]
             ELSE [some |-> TRUE, piece |-> SubSeq(sp.rest, 1, i - 1),
                   sp |-> [rest |-> SubSeq(sp.rest, i + 1, Len(sp.rest)),
                           finished |-> FALSE]]

(* ----------------------------- values --------------------------------- *)

\* an item of io::Lines: io::Result<String>
OkItem(l) == [ok |-> TRUE, line |-> l, err |-> "none"]
ErrItem(e) == [ok |-> FALSE, line |-> <<>>, err |-> e]

\* what UCDLines::next returns: None, Some(UCDLine) / Some(Ok(UCDLine)),
\* Some(Err(e))
RetNone == [tag |-> "None", line |-> <<>>, err |-> "none"]
RetLine(l) == [tag |-> "Line", line |-> l, err |-> "none"]
RetErr(e) == [tag |-> "Err", line |-> <<>>, err |-> e]

\* no field iterator exists
NoIter == [live |-> FALSE, from |-> "none", line |-> <<>>, sp |-> Split(<<>>)]

(* ------------------------------ state --------------------------------- *)

VARIABLES
    text,       \* the input text (UCD<&str>.0, and the bytes of the stream)
    forms,      \* the source forms the caller has constructed over the text
    faulty,     \* whether the byte stream is one whose reads can fail
    strSrc,     \* UCDLines<str::Lines>.0: the lines not yet read
    ioSrc,      \* UCDLines<io::Lines>.0: the reads not yet made
    pc,         \* "idle", or the UCDLines::next call in progress
    cur,        \* the items the call in progress has read so far
    strRet,     \* the completed calls of the string form, in order
    ioRet,      \* the completed calls of the byte-stream form, in order
    lineIter,   \* the UCDLineIter in use, if any
    fieldRet    \* the completed calls of UCDLineIter::next on lineIter

vars == <<text, forms, faulty, strSrc, ioSrc, pc, cur, strRet, ioRet, lineIter, fieldRet>>

(* ---------------------------- construction ---------------------------- *)

\* UCD<&str>::ucd_lines
UcdLinesStr(t) == Lines(t)

\* UCD<BufReader<T>>::ucd_lines
UcdLinesIo(t) == Lines(t)

\* the caller has constructed the pipelines fs over text t, the byte stream
\* being faulty or not as f says
Constructed(t, fs, f) ==
    /\ text = t
    /\ forms = fs
    /\ faulty = f
    /\ strSrc = (IF "str" \in fs THEN UcdLinesStr(t) ELSE <<>>)
    /\ ioSrc = (IF "io" \in fs THEN UcdLinesIo(t) ELSE <<>>)
    /\ pc = "idle"
    /\ cur = <<>>
    /\ strRet = <<>>
    /\ ioRet = <<>>
    /\ lineIter = NoIter
    /\ fieldRet = <<>>

\* one pipeline over a text: the string form, or the byte-stream form over a
\* stream that is sound or faulty
Init ==
    \E t \in Texts :
        \/ Constructed(t, {"str"}, FALSE)
        \/ \E f \in BOOLEAN : Constructed(t, {"io"}, f)

\* both pipelines over the same text, the byte stream sound
InitPair ==
    \E t \in Texts : Constructed(t, {"str", "io"}, FALSE)

(* --------------------------- UCDLines::next --------------------------- *)

\* a bug: the first character of the line, leading whitespace included
FirstUntrimmed(line) ==
    IF line = <<>> THEN <<>> ELSE <<Head(line)>>

\* line.trim_start().chars().next(): the first character of the line after
\* its leading whitespace, as a sequence of at most one character
FirstAfterTrimStart(line) ==
    LET t == TrimStart(line)
    IN  IF t = <<>> THEN <<>> ELSE <<Head(t)>>

\* what one pass of the loop of next() does: go round again, or return ret
Continue == [return |-> FALSE, ret |-> RetNone]
Return(r) == [return |-> TRUE, ret |-> r]

\* a bug: a line with a comment anywhere in it is skipped like a comment line
StrMatchAnyComment(line) ==
    IF FirstAfterTrimStart(line) = <<>> \/ Find(line, "#") # 0
    THEN Continue
    ELSE Return(RetLine(line))

\* a bug: a blank or comment line ends the call like the end of the input
StrMatchStopsAtBlank(line) ==
    IF FirstAfterTrimStart(line) \in {<<"#">>, <<>>}
    THEN Return(RetNone)
    ELSE Return(RetLine(line))

\* the loop body of UCDLines<str::Lines>::next for the line just read
StrMatch(line) ==
    IF FirstAfterTrimStart(line) \in {<<"#">>, <<>>}
    THEN Continue
    ELSE Return(RetLine(line))

\* a bug: a failed read is skipped like a blank line
IoMatchSkipsErrors(item) ==
    IF item.ok /\ FirstAfterTrimStart(item.line) \notin {<<"#">>, <<>>}
    THEN Return(RetLine(item.line))
    ELSE Continue

\* a bug: the byte-stream form looks at the first character untrimmed
IoMatchUntrimmed(item) ==
    IF item.ok
    THEN IF FirstUntrimmed(item.line) \in {<<"#">>, <<>>}
         THEN Continue
         ELSE Return(RetLine(item.line))
    ELSE Return(RetErr(item.err))

\* the loop body of UCDLines<io::Lines<T>>::next for the item just read
IoMatch(item) ==
    IF item.ok
    THEN IF FirstAfterTrimStart(item.line) \in {<<"#">>, <<>>}
         THEN Continue
         ELSE Return(RetLine(item.line))
    ELSE Return(RetErr(item.err))

\* a completed call: what it returned and the items it read
Done(ret, items) == [ret |-> ret, read |-> items]

\* the caller calls next() on UCDLines<str::Lines>; the line and the field
\* iterator it held are dropped
StrCall ==
    /\ pc = "idle"
    /\ "str" \in forms
    /\ Len(strRet) < MaxCalls
    /\ pc' = "str"
    /\ cur' = <<>>
    /\ lineIter' = NoIter
    /\ fieldRet' = <<>>
    /\ UNCHANGED <<text, forms, faulty, strSrc, ioSrc, strRet, ioRet>>

\* one pass of the loop of UCDLines<str::Lines>::next
StrLoop ==
    /\ pc = "str"
    /\ IF strSrc = <<>>
       THEN \* self.0.next()? returns None
            /\ strRet' = Append(strRet, Done(RetNone, cur))
            /\ pc' = "idle"
            /\ cur' = <<>>
            /\ UNCHANGED strSrc
       ELSE LET line == Head(strSrc)
                m == StrMatch(line)
            IN  /\ strSrc' = Tail(strSrc)
                /\ IF m.return
                   THEN /\ strRet' = Append(strRet, Done(m.ret, Append(cur, line)))
                        /\ pc' = "idle"
                        /\ cur' = <<>>
                   ELSE /\ cur' = Append(cur, line)
                        /\ UNCHANGED <<pc, strRet>>
    /\ UNCHANGED <<text, forms, faulty, ioSrc, ioRet, lineIter, fieldRet>>

\* the caller calls next() on UCDLines<io::Lines<T>>; the line and the field
\* iterator it held are dropped
IoCall ==
    /\ pc = "idle"
    /\ "io" \in forms
    /\ Len(ioRet) < MaxCalls
    /\ pc' = "io"
    /\ cur' = <<>>
    /\ lineIter' = NoIter
    /\ fieldRet' = <<>>
    /\ UNCHANGED <<text, forms, faulty, strSrc, ioSrc, strRet, ioRet>>

\* the line reads of the byte stream that have failed so far
Failed ==
    Cardinality({k \in 1..Len(ioRet) : \E m \in 1..Len(ioRet[k].read) : ~ioRet[k].read[m].ok})
    + Cardinality({m \in 1..Len(cur) : ~cur[m].ok})

\* io::Lines::next on a stream whose next line is l: Ok(l), or the error of
\* a read that fails
ReadLine(l) ==
    {OkItem(l)} \cup (IF faulty /\ Failed < MaxFail THEN {ErrItem(e) : e \in IoErrors} ELSE {})

\* one pass of the loop of UCDLines<io::Lines<T>>::next
IoLoop ==
    /\ pc = "io"
    /\ IF ioSrc = <<>>
       THEN \* self.0.next()? returns None
            /\ ioRet' = Append(ioRet, Done(RetNone, cur))
            /\ pc' = "idle"
            /\ cur' = <<>>
            /\ UNCHANGED ioSrc
       ELSE \E item \in ReadLine(Head(ioSrc)) :
                LET m == IoMatch(item)
                IN  /\ ioSrc' = Tail(ioSrc)
                    /\ IF m.return
                       THEN /\ ioRet' = Append(ioRet, Done(m.ret, Append(cur, item)))
                            /\ pc' = "idle"
                            /\ cur' = <<>>
                       ELSE /\ cur' = Append(cur, item)
                            /\ UNCHANGED <<pc, ioRet>>
    /\ UNCHANGED <<text, forms, faulty, strSrc, strRet, lineIter, fieldRet>>

(* --------------------------- field iterator --------------------------- *)

\* a bug: the comment is not cut off
WholeLine(line) == line

\* self.0.split('#').next().unwrap()
BeforeComment(line) == SplitNext(Split(line), "#").piece

\* IntoIterator for UCDLine<&str>
IntoIterStr(line) == Split(BeforeComment(line))

\* IntoIterator for &UCDLine<String>
IntoIterString(line) == Split(BeforeComment(line))

RECURSIVE UCDLineIterNextSkipping(_)
\* a bug: an empty piece is skipped and the next piece is looked at
UCDLineIterNextSkipping(sp) ==
    LET p == SplitNext(sp, ";")
        s == Trim(p.piece)
    IN  IF ~p.some
        THEN [popped |-> FALSE, piece |-> <<>>, some |-> FALSE, val |-> <<>>, sp |-> p.sp]
        ELSE IF s = <<>>
        THEN UCDLineIterNextSkipping(p.sp)
        ELSE [popped |-> TRUE, piece |-> p.piece, some |-> TRUE, val |-> s, sp |-> p.sp]

\* a bug: an empty piece ends the iterator for good
UCDLineIterNextFused(sp) ==
    LET p == SplitNext(sp, ";")
        s == Trim(p.piece)
    IN  IF ~p.some
        THEN [popped |-> FALSE, piece |-> <<>>, some |-> FALSE, val |-> <<>>, sp |-> p.sp]
        ELSE IF s = <<>>
        THEN [popped |-> TRUE, piece |-> p.piece, some |-> FALSE, val |-> <<>>,
              sp |-> [rest |-> <<>>, finished |-> TRUE]]
        ELSE [popped |-> TRUE, piece |-> p.piece, some |-> TRUE, val |-> s, sp |-> p.sp]

\* UCDLineIter::next on iterator state sp: the piece popped, what the call
\* returns and the state after it
UCDLineIterNext(sp) ==
    LET p == SplitNext(sp, ";")
        s == Trim(p.piece)
    IN  IF ~p.some
        THEN \* self.0.next()? returns None
             [popped |-> FALSE, piece |-> <<>>, some |-> FALSE, val |-> <<>>, sp |-> p.sp]
        ELSE IF s = <<>>
        THEN [popped |-> TRUE, piece |-> p.piece, some |-> FALSE, val |-> <<>>, sp |-> p.sp]
        ELSE [popped |-> TRUE, piece |-> p.piece, some |-> TRUE, val |-> s, sp |-> p.sp]

\* the line the last completed call of a pipeline returned, if it did
LastLine(rets) ==
    IF rets # <<>> /\ rets[Len(rets)].ret.tag = "Line"
    THEN <<rets[Len(rets)].ret.line>>
    ELSE <<>>

\* the caller converts the UCDLine<&str> it holds
StrIntoIter ==
    /\ pc = "idle"
    /\ ~lineIter.live
    /\ LastLine(strRet) # <<>>
    /\ LET line == LastLine(strRet)[1]
       IN  lineIter' = [live |-> TRUE, from |-> "str", line |-> line,
                        sp |-> IntoIterStr(line)]
    /\ fieldRet' = <<>>
    /\ UNCHANGED <<text, forms, faulty, strSrc, ioSrc, pc, cur, strRet, ioRet>>

\* the caller converts a reference to the UCDLine<String> it holds
StringIntoIter ==
    /\ pc = "idle"
    /\ ~lineIter.live
    /\ LastLine(ioRet) # <<>>
    /\ LET line == LastLine(ioRet)[1]
       IN  lineIter' = [live |-> TRUE, from |-> "io", line |-> line,
                        sp |-> IntoIterString(line)]
    /\ fieldRet' = <<>>
    /\ UNCHANGED <<text, forms, faulty, strSrc, ioSrc, pc, cur, strRet, ioRet>>

\* the caller calls next() on the field iterator
FieldNext ==
    /\ pc = "idle"
    /\ lineIter.live
    /\ Len(fieldRet) < MaxFieldCalls
    /\ LET r == UCDLineIterNext(lineIter.sp)
       IN  /\ lineIter' = [lineIter EXCEPT !.sp = r.sp]
           /\ fieldRet' = Append(fieldRet, [popped |-> r.popped, piece |-> r.piece,
                                            some |-> r.some, val |-> r.val])
    /\ UNCHANGED <<text, forms, faulty, strSrc, ioSrc, pc, cur, strRet, ioRet>>

Next ==
    \/ StrCall
    \/ StrLoop
    \/ IoCall
    \/ IoLoop
    \/ StrIntoIter
    \/ StringIntoIter
    \/ FieldNext

Spec == Init /\ [][Next]_vars

\* a call of next(), once begun, runs on: the caller is a single thread and
\* nothing else runs until the call returns
FairSpec == Spec /\ WF_vars(StrLoop) /\ WF_vars(IoLoop)

\* the caller pulls lines from both pipelines over one text
NextPair ==
    \/ StrCall
    \/ StrLoop
    \/ IoCall
    \/ IoLoop

PairSpec == InitPair /\ [][NextPair]_vars

(* ------------------- vocabulary of the properties --------------------- *)

\* the blank characters
Blank == {" ", "\n"}

\* a line that is neither blank nor a comment line: its first non-blank
\* character exists and is not '#'
Significant(line) ==
    \E i \in 1..Len(line) :
        /\ line[i] \notin Blank
        /\ line[i] # "#"
        /\ \A j \in 1..(i - 1) : line[j] \in Blank

\* the lines of the input
InputLines == Lines(text)

RECURSIVE ReadBy(_)
\* the items the completed calls rets have read, in order
ReadBy(rets) ==
    IF rets = <<>> THEN <<>>
    ELSE ReadBy(SubSeq(rets, 1, Len(rets) - 1)) \o rets[Len(rets)].read

RECURSIVE YieldedBy(_)
\* the lines the completed calls rets have yielded, in order
YieldedBy(rets) ==
    IF rets = <<>> THEN <<>>
    ELSE YieldedBy(SubSeq(rets, 1, Len(rets) - 1))
         \o (IF rets[Len(rets)].ret.tag = "Line" THEN <<rets[Len(rets)].ret.line>> ELSE <<>>)

\* the items a call has skipped: all it read but the one it returned
SkippedBy(call) ==
    IF call.ret.tag = "None" THEN call.read
    ELSE SubSeq(call.read, 1, Len(call.read) - 1)

\* the string pipeline has been pulled to exhaustion
StrExhausted == \E k \in 1..Len(strRet) : strRet[k].ret.tag = "None"

(* ------------------------------- C1 ----------------------------------- *)

\* C1: in both source forms, every line UCDLines::next yields is, after its
\* leading whitespace, non-empty and does not start with '#'.
C1_YieldedLinesAreSignificant ==
    /\ \A k \in 1..Len(strRet) :
           strRet[k].ret.tag = "Line" => Significant(strRet[k].ret.line)
    /\ \A k \in 1..Len(ioRet) :
           ioRet[k].ret.tag = "Line" => Significant(ioRet[k].ret.line)

\* the byte-stream form has yielded a line with leading whitespace after
\* skipping a line in the same call
C1_Witness ==
    \E k \in 1..Len(ioRet) :
        /\ ioRet[k].ret.tag = "Line"
        /\ Len(ioRet[k].read) > 1
        /\ Head(ioRet[k].ret.line) \in Blank

(* ------------------------------- C2 ----------------------------------- *)

\* C2: the string pipeline partitions the input lines: what has been read so
\* far and what is left make up the input lines in order; every call skips
\* only blank and comment lines and yields the line it read last, unchanged;
\* and once exhausted the lines yielded are exactly the significant input
\* lines, in order.
C2_PartitionsInputLines ==
    "str" \in forms =>
    /\ ReadBy(strRet) \o (IF pc = "str" THEN cur ELSE <<>>) \o strSrc = InputLines
    /\ \A k \in 1..Len(strRet) :
           LET call == strRet[k]
               skipped == SkippedBy(call)
           IN  /\ \A m \in 1..Len(skipped) : ~Significant(skipped[m])
               /\ call.ret.tag = "Line" =>
                      /\ call.read # <<>>
                      /\ call.ret.line = call.read[Len(call.read)]
                      /\ Significant(call.ret.line)
    /\ StrExhausted =>
           /\ strSrc = <<>>
           /\ YieldedBy(strRet) = SelectSeq(InputLines, Significant)

\* exhausted after yielding a line and skipping another
C2_Witness ==
    /\ StrExhausted
    /\ YieldedBy(strRet) # <<>>
    /\ Len(YieldedBy(strRet)) < Len(InputLines)

(* --------------------- vocabulary of the fields ----------------------- *)

\* the text of a line before its first '#', the whole line when it has none
Data(line) ==
    LET marks == {i \in 1..Len(line) : line[i] = "#"}
    IN  IF marks = {} THEN line
        ELSE SubSeq(line, 1, (CHOOSE i \in marks : \A j \in marks : i <= j) - 1)

\* the positions of the delimiters of d
Delims(d) == {i \in 1..Len(d) : d[i] = ";"}

\* the position of the k-th delimiter of d; 0 for k = 0 and one past the end
\* of d for k beyond the last
Delim(d, k) ==
    IF k = 0 THEN 0
    ELSE IF k > Cardinality(Delims(d)) THEN Len(d) + 1
    ELSE CHOOSE i \in Delims(d) : Cardinality({j \in Delims(d) : j < i}) = k - 1

\* the pieces of d between its delimiters, in order
Pieces(d) ==
    [k \in 1..(Cardinality(Delims(d)) + 1) |->
        SubSeq(d, Delim(d, k - 1) + 1, Delim(d, k) - 1)]

\* s without its leading and trailing blanks
Stripped(s) ==
    LET solid == {i \in 1..Len(s) : s[i] \notin Blank}
    IN  IF solid = {} THEN <<>>
        ELSE SubSeq(s, CHOOSE i \in solid : \A j \in solid : i <= j,
                       CHOOSE i \in solid : \A j \in solid : i >= j)

\* the fields of a line: the stripped pieces of its data before the first
\* piece that is empty once stripped
Fields(line) ==
    LET ps == Pieces(Data(line))
        empty == {k \in 1..Len(ps) : Stripped(ps[k]) = <<>>}
        n == IF empty = {} THEN Len(ps)
             ELSE (CHOOSE k \in empty : \A j \in empty : k <= j) - 1
    IN  [k \in 1..n |-> Stripped(ps[k])]

\* the calls of next() on the field iterator that returned nothing
Nones == {k \in 1..Len(fieldRet) : ~fieldRet[k].some}

\* what collecting the field iterator has gathered: the values returned
\* before the first call that returned nothing
Collected ==
    LET n == IF Nones = {} THEN Len(fieldRet)
             ELSE (CHOOSE k \in Nones : \A j \in Nones : k <= j) - 1
    IN  [k \in 1..n |-> fieldRet[k].val]

\* s occurs in d as a contiguous run of characters
IsSubstring(s, d) ==
    \E i \in 1..(Len(d) + 1) :
        /\ i + Len(s) - 1 <= Len(d)
        /\ SubSeq(d, i, i + Len(s) - 1) = s

(* ------------------------------- C3 ----------------------------------- *)

\* C3: collecting the field iterator of a significant line gives the fields
\* of the line: the stripped pieces of the text before the first '#', split
\* on ';', up to but excluding the first piece that is empty once stripped.
C3_CollectGivesFields ==
    lineIter.live =>
        /\ Len(Collected) <= Len(Fields(lineIter.line))
        /\ \A k \in 1..Len(Collected) : Collected[k] = Fields(lineIter.line)[k]
        /\ Nones # {} => Collected = Fields(lineIter.line)

\* the collection has ended at an empty piece with a non-empty piece still
\* in the line, which is discarded
C3_Witness ==
    /\ lineIter.live
    /\ Nones = {Len(fieldRet)}
    /\ Len(fieldRet) > 1
    /\ Stripped(lineIter.sp.rest) # <<>>

(* ------------------------------- C4 ----------------------------------- *)

\* C4 as claimed: once a call to next() has met a piece that is empty after
\* trimming and returned nothing, every later call returns nothing.
C4_StoppedIsTerminal ==
    \A i \in 1..Len(fieldRet) : \A j \in (i + 1)..Len(fieldRet) :
        (fieldRet[i].popped /\ ~fieldRet[i].some) => ~fieldRet[j].some

\* C4 as amended: a call to next() that meets a piece that is empty after
\* trimming returns nothing, but the iterator goes on: the i-th call pops the
\* i-th piece of the text before the first '#' and returns it trimmed when
\* it is not empty; only when no piece is left does a call pop nothing, and
\* then it and every later call return nothing.
C4_NoneAtEmptyPieceThenResumes ==
    lineIter.live =>
        LET ps == Pieces(Data(lineIter.line))
        IN  \A i \in 1..Len(fieldRet) :
                /\ fieldRet[i].popped <=> i <= Len(ps)
                /\ fieldRet[i].popped =>
                       /\ fieldRet[i].piece = ps[i]
                       /\ fieldRet[i].some <=> Stripped(ps[i]) # <<>>
                       /\ fieldRet[i].some => fieldRet[i].val = Stripped(ps[i])
                /\ ~fieldRet[i].popped => ~fieldRet[i].some

\* a call has returned a field after an earlier call met an empty piece
C4_Witness ==
    \E i \in 1..Len(fieldRet) : \E j \in (i + 1)..Len(fieldRet) :
        /\ fieldRet[i].popped
        /\ ~fieldRet[i].some
        /\ fieldRet[j].some

(* ------------------------------- C5 ----------------------------------- *)

\* C5: every field the field iterator yields, on any call, is non-empty and
\* has no leading or trailing whitespace.
C5_FieldsAreTrimmedNonEmpty ==
    \A k \in 1..Len(fieldRet) :
        fieldRet[k].some =>
            /\ fieldRet[k].val # <<>>
            /\ Head(fieldRet[k].val) \notin Blank
            /\ fieldRet[k].val[Len(fieldRet[k].val)] \notin Blank

\* a field has been yielded from a piece that ends with whitespace
C5_Witness ==
    \E k \in 1..Len(fieldRet) :
        /\ fieldRet[k].some
        /\ fieldRet[k].piece[Len(fieldRet[k].piece)] \in Blank

(* ------------------------------- C6 ----------------------------------- *)

\* C6: every field yielded is a substring of the text of the line before its
\* first '#', and contains neither '#' nor ';'.
C6_FieldsComeBeforeComment ==
    lineIter.live =>
        \A k \in 1..Len(fieldRet) :
            fieldRet[k].some =>
                /\ IsSubstring(fieldRet[k].val, Data(lineIter.line))
                /\ \A i \in 1..Len(fieldRet[k].val) : fieldRet[k].val[i] \notin {"#", ";"}

\* every piece of a line with a ';' after its first '#' has been popped
C6_Witness ==
    /\ lineIter.live
    /\ \E k \in 1..Len(fieldRet) : fieldRet[k].some
    /\ \E k \in 1..Len(fieldRet) : ~fieldRet[k].popped
    /\ \E i, j \in 1..Len(lineIter.line) :
           i < j /\ lineIter.line[i] = "#" /\ lineIter.line[j] = ";"

(* ------------------------------- C9 ----------------------------------- *)

\* C9: every line UCDLines yields has a column: the first call to next() on
\* its field iterator returns a field.
C9_YieldedLineHasAField ==
    (lineIter.live /\ fieldRet # <<>>) => fieldRet[1].some

(* ------------------------------- C7 ----------------------------------- *)

\* C7: in the byte-stream form a read error is returned by the call that
\* meets it: the error is the last item the call reads and the call returns
\* Some(Err(e)) with that error; what the call read before it are blank and
\* comment lines, skipped; an error is never skipped, and every pass of the
\* loop reads one line of the source and no more.
C7_ReadErrorIsReturnedAtOnce ==
    "io" \in forms =>
    /\ pc = "io" => \A m \in 1..Len(cur) : cur[m].ok /\ ~Significant(cur[m].line)
    /\ \A k \in 1..Len(ioRet) :
           LET call == ioRet[k]
               n == Len(call.read)
           IN  /\ \A m \in 1..n :
                      ~call.read[m].ok =>
                          /\ m = n
                          /\ call.ret = RetErr(call.read[m].err)
               /\ call.ret.tag = "Err" =>
                      /\ n > 0
                      /\ ~call.read[n].ok
                      /\ \A m \in 1..(n - 1) :
                             call.read[m].ok /\ ~Significant(call.read[m].line)
    /\ Len(ReadBy(ioRet)) + (IF pc = "io" THEN Len(cur) ELSE 0) + Len(ioSrc)
           = Len(InputLines)

\* a call has returned an error after skipping a line, with lines left unread
C7_Witness ==
    /\ ioSrc # <<>>
    /\ \E k \in 1..Len(ioRet) :
           /\ ioRet[k].ret.tag = "Err"
           /\ Len(ioRet[k].read) > 1

(* ------------------------------- C8 ----------------------------------- *)

\* what was left of the input lines when the k-th call of rets began
LeftAt(rets, k) ==
    SubSeq(InputLines, Len(ReadBy(SubSeq(rets, 1, k - 1))) + 1, Len(InputLines))

\* no line of ls is significant
NoneSignificant(ls) == \A m \in 1..Len(ls) : ~Significant(ls[m])

\* of the completed calls: a call reads at most the lines that were left,
\* returns None exactly when no significant line was left (and, in the
\* byte-stream form, no read failed), and after a None come only Nones
C8_Returns ==
    /\ \A k \in 1..Len(strRet) :
           /\ Len(strRet[k].read) <= Len(LeftAt(strRet, k))
           /\ strRet[k].ret.tag = "None" <=> NoneSignificant(LeftAt(strRet, k))
           /\ strRet[k].ret.tag = "None" =>
                  \A j \in k..Len(strRet) : strRet[j].ret.tag = "None"
    /\ \A k \in 1..Len(ioRet) :
           /\ Len(ioRet[k].read) <= Len(LeftAt(ioRet, k))
           /\ ioRet[k].ret.tag = "None" <=>
                  /\ NoneSignificant(LeftAt(ioRet, k))
                  /\ \A m \in 1..Len(ioRet[k].read) : ioRet[k].read[m].ok
           /\ ioRet[k].ret.tag = "None" =>
                  \A j \in k..Len(ioRet) : ioRet[j].ret.tag = "None"

\* of a pass of the loop: it returns or leaves the source shorter
C8_Progress ==
    /\ pc = "str" => (pc' = "idle" \/ Len(strSrc') < Len(strSrc))
    /\ pc = "io" => (pc' = "idle" \/ Len(ioSrc') < Len(ioSrc))

\* C8: every call of UCDLines::next ends, having read at most the lines that
\* were left; it returns None exactly when no significant line was left, and
\* after a None every later call returns None.
C8_NextTerminates ==
    /\ []C8_Returns
    /\ [][C8_Progress]_vars
    /\ (pc # "idle") ~> (pc = "idle")

\* the first call skipped lines and returned None, and so did the second
C8_Witness ==
    /\ Len(strRet) > 1
    /\ strRet[1].ret.tag = "None"
    /\ strRet[1].read # <<>>
    /\ strRet[2].ret.tag = "None"

(* ------------------------------- C10 ---------------------------------- *)

RECURSIVE AllNext(_)
\* what the calls of next() on a field iterator return, up to the call that
\* finds no piece left
AllNext(sp) ==
    LET r == UCDLineIterNext(sp)
    IN  IF ~r.popped THEN <<>>
        ELSE <<[some |-> r.some, val |-> r.val]>> \o AllNext(r.sp)

\* C10: over the same text, while no read of the byte stream has failed, the
\* k-th call of the byte-stream form and the k-th call of the string form
\* return the same (the same line, or None both), and the field iterators of
\* the two lines return the same fields call by call.
C10_FormsAgree ==
    \A k \in 1..Len(strRet) :
        (k <= Len(ioRet) /\ \A j \in 1..k : ioRet[j].ret.tag # "Err") =>
            /\ strRet[k].ret = ioRet[k].ret
            /\ strRet[k].ret.tag = "Line" =>
                   AllNext(IntoIterStr(strRet[k].ret.line))
                       = AllNext(IntoIterString(ioRet[k].ret.line))

\* both forms have skipped a line, yielded a line and then returned None
C10_Witness ==
    /\ Len(strRet) > 1
    /\ Len(ioRet) > 1
    /\ \A j \in 1..Len(ioRet) : ioRet[j].ret.tag # "Err"
    /\ strRet[1].ret.tag = "Line"
    /\ Len(strRet[1].read) > 1
    /\ strRet[2].ret.tag = "None"
    /\ ioRet[2].ret.tag = "None"

=============================================================================
